---- MODULE Spec2Model ----
(***************************************************************************)
(* Verification model of irlib (katherlee/irlib):                          *)
(*   - piecewise_polynomial.hpp : piecewise-polynomial algebra             *)
(*   - detail/basis_impl.ipp    : adaptive basis generator and the         *)
(*                                Matsubara transform                      *)
(* Real numbers are modelled by integers (section edges on an integer      *)
(* grid, coefficients and singular values by small integers); ratios are   *)
(* compared by cross-multiplication.  C++ indices are 0-based, TLA+        *)
(* sequences 1-based: element i of a C++ vector is element i+1 here.       *)
(***************************************************************************)
EXTENDS Integers, Sequences, FiniteSets, TLC

VARIABLES
    \* piecewise-polynomial algebra
    f, g,           \* the two operands
    x,              \* the evaluation point
    op,             \* the operation that was applied ("none" before any)
    res,            \* what the operation produced
    \* Matsubara transform
    n_vec,          \* list of Matsubara / o indices handed to the routine
    statis,         \* "FERMIONIC" or "BOSONIC"
    bf_src,         \* the list of basis functions
    Tnl,            \* the caller's output matrix
    tcall,          \* routine that ran ("none" before any)
    tres,           \* how it ended
    tails,          \* per basis function, the derivative orders of its tail
    n_limit,        \* per basis function, the threshold of its tail regime
    \* adaptive basis generator (generate_ir_basis_functions)
    max_dim, sv_cutoff, num_local_poly, verbose,    \* the arguments
    r_tol,                                          \* the argument r_tol
    knl,                    \* the kernel, by its approximate nodes
    section_edges_x, section_edges_y,               \* current partitions
    svd_even, svd_odd,      \* singular values of the two sector SVDs
    sv, Uvec, Vvec,         \* the interleaved lists
    residual_x, residual_y, \* per-section tail residuals
    residual_weight,        \* the numerator under their square root
    a_tol_x, a_tol_y,       \* the tolerances of the iteration
    gpc,                    \* position of the run
    gret,                   \* how the run ended
    \* compute_Tnl_impl and the process-wide default precision
    default_prec,           \* mpfr::mpreal default precision (bits)
    prec_entry,             \* its value when compute_Tnl_impl was entered
    prec_bak,               \* the local prec_bak
    impl_p, impl_w,         \* the arguments p and w (w in units of 0.1*pi)
    digits_A, digits_B,     \* the arguments digits_A and digits_B
    impl_s,                 \* the section the loop is at
    ipc,                    \* position of the call
    \* the sign normalisation of the basis functions
    u_basis_pp, v_basis_pp, \* the lifted basis functions
    sgn_sv,                 \* their singular values
    sgn_entry,              \* the three lists as they were before the loop
    sgn_i,                  \* the loop index
    spc,                    \* position of the loop
    \* the section integrals of compute_integral_with_exp
    int_w,                  \* the argument w, in units of pi/2
    int_edges,              \* pp_func[0].section_edges()
    int_s,                  \* the section the loop is at
    int_n_max_cs,           \* the local n_max_cs of that section
    left_mid,               \* per section and row n, the branches that wrote it
    Ik_div,                 \* the divisors iw of the calls of compute_Ik
    intpc                   \* position of the call

genVars == <<max_dim, sv_cutoff, num_local_poly, verbose, r_tol, knl,
             section_edges_x, section_edges_y, svd_even, svd_odd,
             sv, Uvec, Vvec, residual_x, residual_y, residual_weight,
             a_tol_x, a_tol_y, gpc, gret>>

precVars == <<default_prec, prec_entry, prec_bak, impl_p, impl_w,
              digits_A, digits_B, impl_s, ipc>>

signVars == <<u_basis_pp, v_basis_pp, sgn_sv, sgn_entry, sgn_i, spc>>

intVars == <<int_w, int_edges, int_s, int_n_max_cs, left_mid, Ik_div, intpc>>

vars == <<f, g, x, op, res, n_vec, statis, bf_src, Tnl, tcall, tres, tails,
          n_limit, genVars, precVars, signVars, intVars>>

ppVars == <<f, g, x, op, res>>
tnlVars == <<n_vec, statis, bf_src, Tnl, tcall, tres, tails, n_limit>>

----------------------------------------------------------------------------
(* Bounds of the model *)

MaxEdge == 2        \* section edges are drawn from 0..MaxEdge
MaxSections == 2    \* a piecewise polynomial has 1..MaxSections sections
MaxOrder == 1       \* polynomial orders 0..MaxOrder
MaxCoef == 1        \* coefficients are drawn from 0..MaxCoef

----------------------------------------------------------------------------
(* Small helpers *)

Min(a, b) == IF a < b THEN a ELSE b
Max(a, b) == IF a > b THEN a ELSE b

RECURSIVE Pow(_, _)
Pow(b, e) == IF e = 0 THEN 1 ELSE b * Pow(b, e - 1)

Zeros(n) == [i \in 1..n |-> 0]

StrictlyAscending(s) == \A i \in 1..(Len(s) - 1) : s[i] < s[i + 1]

\* all strictly ascending sequences of length n over 0..MaxEdge
Partitions(n) == {s \in [1..n -> 0..MaxEdge] : StrictlyAscending(s)}

----------------------------------------------------------------------------
(* piecewise_polynomial: representation *)

\* piecewise_polynomial::set_validity : the conditions under which an
\* object is valid (n_sections_ is section_edges.size() - 1 in both
\* non-default constructors)
set_validity(k, S, a) ==
    LET n_sections == Len(S) - 1 IN
    /\ n_sections >= 1
    /\ Len(S) = n_sections + 1
    /\ Len(a) = n_sections
    /\ \A s \in 1..Len(a) : Len(a[s]) = k + 1
    /\ \A i \in 1..n_sections : S[i] < S[i + 1]

\* piecewise_polynomial(int k, const std::vector<Tx>& section_edges):
\* the object set to zero
ZeroPP(k, S) == [k |-> k, S |-> S, a |-> [s \in 1..(Len(S) - 1) |-> Zeros(k + 1)]]

\* piecewise_polynomial(n_section, section_edges, coeff)
MakePP(S, a) == [k |-> Len(a[1]) - 1, S |-> S, a |-> a]

order(p) == p.k
num_sections(p) == Len(p.S) - 1
section_edge(p, i) == p.S[i + 1]
coefficient(p, s, j) == p.a[s + 1][j + 1]

\* the partitions with 1..MaxSections sections
AllPartitions == UNION {Partitions(m) : m \in 2..(MaxSections + 1)}

\* the coefficient rows of the orders 0..MaxOrder
AllRows == UNION {[1..(k + 1) -> 0..MaxCoef] : k \in 0..MaxOrder}

\* a coefficient array of n sections: section s holds the row c scaled by
\* s + 1, so that the sections of an object differ
Table(n, c) == [s \in 1..n |-> [j \in 1..Len(c) |-> s * c[j]]]

\* every object the model starts from: built by the coefficient constructor
\* from a strictly ascending partition
AllPP ==
    {MakePP(Sc[1], Table(Len(Sc[1]) - 1, Sc[2])) :
        Sc \in {Sc \in AllPartitions \X AllRows :
                   set_validity(Len(Sc[2]) - 1, Sc[1],
                                Table(Len(Sc[1]) - 1, Sc[2]))}}

----------------------------------------------------------------------------
(* piecewise_polynomial: element-wise operations *)

ApplyOp(o, a, b) == IF o = "plus" THEN a + b ELSE a - b

\* detail::pp_element_wise_op::perform : p_r is the buffer as it was before
\* the call; entries 0..k_r are zeroed, entries 0..min(k1,k2) receive
\* op(p1[i], p2[i]); what lies beyond is left as it was.
perform(o, p1, p2, p_r, k1, k2, k_r) ==
    LET k == Min(k1, k2) IN
    [i \in 1..Len(p_r) |->
        IF i - 1 < k + 1 THEN ApplyOp(o, p1[i], p2[i])
        ELSE IF i - 1 < k_r + 1 THEN 0
        ELSE p_r[i]]

\* detail::do_op, the loop over sections: coeff_r is allocated once (zeros)
\* before the loop and reused by every section
RECURSIVE do_op_rows(_, _, _, _, _)
do_op_rows(o, f1, f2, s, coeff_r) ==
    IF s >= num_sections(f1) THEN <<>>
    ELSE LET k_min == Min(order(f1), order(f2))
             r == perform(o, f1.a[s + 1], f2.a[s + 1], coeff_r,
                          order(f1), order(f2), k_min)
         IN <<r>> \o do_op_rows(o, f1, f2, s + 1, r)

\* a comparison of the numbers of edges only
section_edges_differ_in_size(f1, f2) == Len(f1.S) # Len(f2.S)

\* `f1.section_edges_ != f2.section_edges_` (std::vector operator!=)
section_edges_differ(f1, f2) == f1.S # f2.S

\* detail::do_op
do_op(f1, f2, o) ==
    IF section_edges_differ(f1, f2)
    THEN [kind |-> "err", err |-> "PartitionMismatch"]
    ELSE LET k_new == Max(order(f1), order(f2)) IN
         [kind |-> "pp",
          pp |-> [k |-> k_new, S |-> f1.S,
                  a |-> do_op_rows(o, f1, f2, 0, Zeros(k_new + 1))]]

\* operator+ / operator-
pp_plus(f1, f2) == do_op(f1, f2, "plus")
pp_minus(f1, f2) == do_op(f1, f2, "minus")

\* operator*(T scalar, const piecewise_polynomial&): a copy with every
\* coefficient multiplied by the scalar
scalar_mul(scalar, pp) ==
    [pp EXCEPT !.a = [s \in 1..Len(pp.a) |->
                         [j \in 1..Len(pp.a[s]) |-> scalar * pp.a[s][j]]]]

RECURSIVE SumSeq(_)
SumSeq(q) == IF q = <<>> THEN 0 ELSE Head(q) + SumSeq(Tail(q))

RECURSIVE Factorial(_)
Factorial(n) == IF n <= 1 THEN 1 ELSE n * Factorial(n - 1)

\* multiply(f1, f2): the coefficient of degree q of section s accumulates
\* f1[s,p1] * f2[s,p2] over p1 + p2 = q
multiply(f1, f2) ==
    IF section_edges_differ(f1, f2)
    THEN [kind |-> "err", err |-> "PartitionMismatch"]
    ELSE LET k1 == order(f1)
             k2 == order(f2)
             k == k1 + k2
         IN [kind |-> "pp",
             pp |-> [k |-> k, S |-> f1.S,
                     a |-> [s \in 1..num_sections(f1) |->
                              [q \in 1..(k + 1) |->
                                 SumSeq([p1 \in 1..(k1 + 1) |->
                                    SumSeq([p2 \in 1..(k2 + 1) |->
                                       IF (p1 - 1) + (p2 - 1) = q - 1
                                       THEN f1.a[s][p1] * f2.a[s][p2]
                                       ELSE 0])])]]]]

\* integrate with dx_power starting at 1 instead of dx
integrate_from_power_zero(y) ==
    LET k == order(y)
        den == Factorial(k + 1)
        rvec == [p \in 1..(k + 1) |->
                    SumSeq([s \in 1..num_sections(y) |->
                       Pow(section_edge(y, s) - section_edge(y, s - 1), p - 1)
                           * y.a[s][p]])]
    IN [kind |-> "value",
        num |-> SumSeq([p \in 1..(k + 1) |-> rvec[p] * (den \div p)]),
        den |-> den]

\* integrate(y): rvec[p] sums dx^(p+1) * y[s,p] over the sections, the
\* result sums rvec[p] / (p+1); the value is the ratio num / den
integrate(y) ==
    LET k == order(y)
        den == Factorial(k + 1)
        rvec == [p \in 1..(k + 1) |->
                    SumSeq([s \in 1..num_sections(y) |->
                       Pow(section_edge(y, s) - section_edge(y, s - 1), p)
                           * y.a[s][p]])]
    IN [kind |-> "value",
        num |-> SumSeq([p \in 1..(k + 1) |-> rvec[p] * (den \div p)]),
        den |-> den]

\* piecewise_polynomial::overlap(other), real coefficients: the value is
\* the ratio num / den
overlap(this, other) ==
    IF section_edges_differ(this, other)
    THEN [kind |-> "err", err |-> "PartitionMismatch"]
    ELSE LET k == order(this)
             k2 == order(other)
             den == Factorial(k + k2 + 1)
         IN [kind |-> "value",
             num |-> SumSeq([s \in 1..num_sections(this) |->
                        SumSeq([p \in 1..(k + 1) |->
                           SumSeq([p2 \in 1..(k2 + 1) |->
                              this.a[s][p] * other.a[s][p2]
                                * Pow(section_edge(this, s) - section_edge(this, s - 1),
                                      (p - 1) + (p2 - 1) + 1)
                                * (den \div ((p - 1) + (p2 - 1) + 1))])])]),
             den |-> den]

----------------------------------------------------------------------------
(* piecewise_polynomial: evaluation *)

\* std::upper_bound on the edges: 0-based index of the first edge > x,
\* section_edges_.size() when there is none
upper_bound(S, xx) ==
    IF \E i \in 1..Len(S) : S[i] > xx
    THEN (CHOOSE i \in 1..Len(S) : S[i] > xx /\ \A j \in 1..(i - 1) : S[j] <= xx) - 1
    ELSE Len(S)

\* find_section without the special case for the last edge
find_section_no_back(p, xx) ==
    IF xx = p.S[1] THEN 0
    ELSE upper_bound(p.S, xx) - 1

\* piecewise_polynomial::find_section
find_section(p, xx) ==
    IF xx = p.S[1] THEN 0
    ELSE IF xx = p.S[Len(p.S)] THEN Len(p.S) - 2
    ELSE upper_bound(p.S, xx) - 1

\* piecewise_polynomial::compute_value(x, section) for a section that exists
RECURSIVE horner(_, _, _)
horner(row, dx, j) ==
    IF j > Len(row) THEN 0 ELSE row[j] * Pow(dx, j - 1) + horner(row, dx, j + 1)

compute_value_in(p, xx, section) ==
    horner(p.a[section + 1], xx - p.S[section + 1], 1)

\* values an out-of-bounds read can deliver
Garbage == {-1, 0, 1}

\* piecewise_polynomial::compute_value(x): find_section, then the evaluation
\* in that section.  No range check is made; for a section index outside
\* 0..N-1 the reads of section_edges_ and coeff_ are out of bounds: the
\* build either aborts (assert / memory fault) or returns whatever it read.
compute_value_outcomes(p, xx) ==
    LET s == find_section(p, xx) IN
    IF s >= 0 /\ s < num_sections(p)
    THEN {[kind |-> "value", section |-> s, val |-> compute_value_in(p, xx, s)]}
    ELSE {[kind |-> "crash", section |-> s, val |-> 0]} \cup
         {[kind |-> "value", section |-> s, val |-> v] : v \in Garbage}

----------------------------------------------------------------------------
(* Piecewise-polynomial algebra: the operations applied to drawn operands *)

NoRes == [kind |-> "none"]

\* a_tol_x, a_tol_y outside the part of an iteration in which they exist
\* (a tolerance is r_tol times an absolute value: -1, 0 or 1 here)
NoTolerance == 0 - 2

TnlIdle ==
    /\ n_vec = <<>>
    /\ statis = "FERMIONIC"
    /\ bf_src = <<>>
    /\ Tnl = <<>>
    /\ tcall = "none"
    /\ tres = NoRes
    /\ tails = << >>
    /\ n_limit = << >>

GenIdle ==
    /\ max_dim = 1
    /\ sv_cutoff = [n |-> 1, d |-> 1]
    /\ num_local_poly = 2
    /\ verbose = FALSE
    /\ r_tol = 1
    /\ knl = [kind |-> "any"]
    /\ section_edges_x = <<>>
    /\ section_edges_y = <<>>
    /\ svd_even = <<>>
    /\ svd_odd = <<>>
    /\ sv = <<>>
    /\ Uvec = <<>>
    /\ Vvec = <<>>
    /\ residual_x = <<>>
    /\ residual_y = <<>>
    /\ residual_weight = 0
    /\ a_tol_x = NoTolerance
    /\ a_tol_y = NoTolerance
    /\ gpc = "idle"
    /\ gret = NoRes

PrecIdle ==
    /\ default_prec = 53
    /\ prec_entry = 53
    /\ prec_bak = 0
    /\ impl_p = ZeroPP(0, <<0, MaxEdge>>)
    /\ impl_w = 0
    /\ digits_A = 30
    /\ digits_B = 30
    /\ impl_s = 0
    /\ ipc = "idle"

IntIdle ==
    /\ int_w = <<>>
    /\ int_edges = <<>>
    /\ int_s = 0
    /\ int_n_max_cs = 0 - 1
    /\ left_mid = <<>>
    /\ Ik_div = {}
    /\ intpc = "idle"

\* two operands for the arithmetic
SignIdle ==
    /\ u_basis_pp = <<>>
    /\ v_basis_pp = <<>>
    /\ sgn_sv = <<>>
    /\ sgn_entry = NoRes
    /\ sgn_i = 0
    /\ spc = "idle"

InitPP ==
    /\ f \in AllPP
    /\ g \in AllPP
    /\ x = 0
    /\ op = "none"
    /\ res = NoRes
    /\ TnlIdle
    /\ GenIdle
    /\ PrecIdle
    /\ SignIdle
    /\ IntIdle

\* one object for the evaluation; g is not used
InitEval ==
    /\ f \in AllPP
    /\ g = ZeroPP(0, <<0, MaxEdge>>)
    /\ x = 0
    /\ op = "none"
    /\ res = NoRes
    /\ TnlIdle
    /\ GenIdle
    /\ PrecIdle
    /\ SignIdle
    /\ IntIdle

Add ==
    /\ op = "none"
    /\ op' = "add"
    /\ res' = pp_plus(f, g)
    /\ UNCHANGED <<f, g, x>>
    /\ UNCHANGED tnlVars
    /\ UNCHANGED genVars
    /\ UNCHANGED precVars
    /\ UNCHANGED signVars
    /\ UNCHANGED intVars

Subtract ==
    /\ op = "none"
    /\ op' = "sub"
    /\ res' = pp_minus(f, g)
    /\ UNCHANGED <<f, g, x>>
    /\ UNCHANGED tnlVars
    /\ UNCHANGED genVars
    /\ UNCHANGED precVars
    /\ UNCHANGED signVars
    /\ UNCHANGED intVars

\* (f + g) - g
AddThenSubtract ==
    /\ op = "none"
    /\ op' = "addsub"
    /\ res' = LET fg == pp_plus(f, g) IN
              IF fg.kind = "err" THEN fg ELSE pp_minus(fg.pp, g)
    /\ UNCHANGED <<f, g, x>>
    /\ UNCHANGED tnlVars
    /\ UNCHANGED genVars
    /\ UNCHANGED precVars
    /\ UNCHANGED signVars
    /\ UNCHANGED intVars

ComputeValue ==
    /\ op = "none"
    /\ \E xx \in (-1)..(MaxEdge + 1) :
         /\ x' = xx
         /\ res' \in compute_value_outcomes(f, xx)
    /\ op' = "value"
    /\ UNCHANGED <<f, g>>
    /\ UNCHANGED tnlVars
    /\ UNCHANGED genVars
    /\ UNCHANGED precVars
    /\ UNCHANGED signVars
    /\ UNCHANGED intVars

FindSection ==
    /\ op = "none"
    /\ \E xx \in (-1)..(MaxEdge + 1) :
         /\ x' = xx
         /\ res' = [kind |-> "section", section |-> find_section(f, xx)]
    /\ op' = "find_section"
    /\ UNCHANGED <<f, g>>
    /\ UNCHANGED tnlVars
    /\ UNCHANGED genVars
    /\ UNCHANGED precVars
    /\ UNCHANGED signVars
    /\ UNCHANGED intVars

\* multiply(f, g)
Multiply ==
    /\ op = "none"
    /\ op' = "multiply"
    /\ res' = multiply(f, g)
    /\ UNCHANGED <<f, g, x>>
    /\ UNCHANGED tnlVars
    /\ UNCHANGED genVars
    /\ UNCHANGED precVars
    /\ UNCHANGED signVars
    /\ UNCHANGED intVars

\* f.overlap(g)
Overlap ==
    /\ op = "none"
    /\ op' = "overlap"
    /\ res' = overlap(f, g)
    /\ UNCHANGED <<f, g, x>>
    /\ UNCHANGED tnlVars
    /\ UNCHANGED genVars
    /\ UNCHANGED precVars
    /\ UNCHANGED signVars
    /\ UNCHANGED intVars

\* integrate(multiply(f, g))
IntegrateProduct ==
    /\ op = "none"
    /\ op' = "integrate_product"
    /\ res' = LET fg == multiply(f, g) IN
              IF fg.kind = "err" THEN fg ELSE integrate(fg.pp)
    /\ UNCHANGED <<f, g, x>>
    /\ UNCHANGED tnlVars
    /\ UNCHANGED genVars
    /\ UNCHANGED precVars
    /\ UNCHANGED signVars
    /\ UNCHANGED intVars

NextPP ==
    \/ Add \/ Subtract \/ AddThenSubtract
    \/ Multiply \/ Overlap \/ IntegrateProduct

SpecPP == InitPP /\ [][NextPP]_vars

\* the edge lists and the coefficient arrays handed to the constructors,
\* the ones set_validity rejects included; a row may be empty (an array
\* with no column)
EdgeLists == UNION {[1..n -> 0..MaxEdge] : n \in 1..(MaxSections + 1)}

CoeffArrays ==
    {Table(n, c) : <<n, c>> \in (1..MaxSections) \X (AllRows \cup {<<>>})}

\* how a constructor ends once the members are set: set_validity asserts
\* each condition, so a build with assertions aborts on the first that
\* fails; without them valid_ is false and check_validity throws
constructed(k, S, a) ==
    IF set_validity(k, S, a)
    THEN {[kind |-> "pp", pp |-> [k |-> k, S |-> S, a |-> a]]}
    ELSE {[kind |-> "crash"], [kind |-> "err", err |-> "InvalidObject"]}

\* piecewise_polynomial(int k, const std::vector<Tx>& section_edges):
\* coeff_ has section_edges.size() - 1 rows and k + 1 columns, all zero
construct_zero(k, S) ==
    constructed(k, S, [s \in 1..(Len(S) - 1) |-> Zeros(k + 1)])

\* piecewise_polynomial(n_section, section_edges, coeff): k_ is
\* coeff.cols() - 1; `assert(n_section == section_edges.size()-1)`
construct_coeff(n_section, S, coeff) ==
    (IF n_section # Len(S) - 1 THEN {[kind |-> "crash"]} ELSE {}) \cup
    constructed(Len(coeff[1]) - 1, S, coeff)

\* the ways a call of one of the two constructors can end
Constructions ==
    UNION {construct_zero(k, S) : <<k, S>> \in ((-1)..MaxOrder) \X EdgeLists}
    \cup
    UNION {construct_coeff(a[1], a[2], a[3]) :
              a \in (1..MaxSections) \X EdgeLists \X CoeffArrays}

\* one of the two constructors is called
Construct ==
    /\ op = "none"
    /\ op' = "construct"
    /\ res' \in Constructions
    /\ UNCHANGED <<f, g, x>>
    /\ UNCHANGED tnlVars
    /\ UNCHANGED genVars
    /\ UNCHANGED precVars
    /\ UNCHANGED signVars
    /\ UNCHANGED intVars

\* scalar * f
ScalarMultiply ==
    /\ op = "none"
    /\ op' = "scalar"
    /\ \E scalar \in {-1, 0, 2} :
         res' = [kind |-> "pp", pp |-> scalar_mul(scalar, f)]
    /\ UNCHANGED <<f, g, x>>
    /\ UNCHANGED tnlVars
    /\ UNCHANGED genVars
    /\ UNCHANGED precVars
    /\ UNCHANGED signVars
    /\ UNCHANGED intVars

NextEval == ComputeValue \/ FindSection \/ Construct \/ ScalarMultiply

SpecEval == InitEval /\ [][NextEval]_vars

----------------------------------------------------------------------------
(* Matsubara transform: compute_Tbar_ol and                               *)
(* compute_transformation_matrix_to_matsubara (ir_basis_set::compute_Tnl) *)
(*                                                                         *)
(* Every error of the source is a std::runtime_error; the model names it  *)
(* by the error kind of its message:                                      *)
(*   "n_vec must be in strictly ascending order!", "o must be given in    *)
(*   strictly ascending order!", "w must be give in ascending order."     *)
(*                                                  -> "OrderError"       *)
(*   "n_vec cannot be negative!"                    -> "RangeError"       *)
(*   "num_tail < 4."                                -> "NumTailError"     *)
(*   "basis functions must be ... of the same order",                     *)
(*   "Piecewise polynomials must be defined on [0,1]" -> "BasisError"     *)

MaxFreq == 2        \* frequency lists have 0..MaxFreq entries
MaxN == 2           \* frequency indices are drawn from -1..MaxN
MaxBasis == 2       \* a basis has 1..MaxBasis functions

\* the grid has MaxEdge steps per unit: the edge value 1.0 is MaxEdge
One == MaxEdge

Ok == [kind |-> "ok", err |-> "none"]
Err(e) == [kind |-> "err", err |-> e]
Crash == [kind |-> "crash", err |-> "none"]

\* the ascending test used on n_vec, o_vec and w: `v[i] > v[i+1]` throws
HasDescent(v) == \E i \in 1..(Len(v) - 1) : v[i] > v[i + 1]

StrictlyAscendingList(v) == \A i \in 1..(Len(v) - 1) : v[i] < v[i + 1]

\* compute_integral_with_exp, the loop that checks the basis functions:
\* k and n_section are those of pp_func[0].  section_edge(n_section) of a
\* function with fewer sections reads past its edges: the build aborts, or
\* the value read differs from 1 (error) or equals 1 (the check passes).
RECURSIVE check_basis(_, _, _, _)
check_basis(pp_func, l, k, n_section) ==
    IF l >= Len(pp_func) THEN {Ok}
    ELSE LET p == pp_func[l + 1] IN
         IF k # order(p) THEN {Err("BasisError")}
         ELSE IF section_edge(p, 0) # 0 THEN {Err("BasisError")}
         ELSE IF n_section <= num_sections(p)
              THEN IF section_edge(p, n_section) # One
                   THEN {Err("BasisError")}
                   ELSE check_basis(pp_func, l + 1, k, n_section)
              ELSE {Crash, Err("BasisError")} \cup
                   check_basis(pp_func, l + 1, k, n_section)

\* compute_integral_with_exp: the checks that precede the integration, in
\* the order of the source (w is non-empty when compute_Tbar_ol calls it)
compute_integral_with_exp(w, pp_func) ==
    LET k == order(pp_func[1])
        n_section == num_sections(pp_func[1])
        basis == check_basis(pp_func, 0, k, n_section)
    IN (basis \ {Ok}) \cup
       (IF Ok \in basis
        THEN IF HasDescent(w) THEN {Err("OrderError")} ELSE {Ok}
        ELSE {})

\* o -> w = 0.5 * pi * o, in units of pi/2
o_to_w(o_vec) == [i \in 1..Len(o_vec) |-> o_vec[i]]

\* compute_Tbar_ol: the set of ways the call can end
compute_Tbar_ol(o_vec, bf) ==
    IF Len(o_vec) = 0 THEN {Ok}
    ELSE IF HasDescent(o_vec) THEN {Err("OrderError")}
    ELSE compute_integral_with_exp(o_to_w(o_vec), bf)

\* the test `n_vec[0] < 0` with the last entry in place of the first
has_negative_last(nv) == nv[Len(nv)] < 0

\* the test for negative indices: `n_vec[0] < 0`, made after the ascending
\* test
has_negative(nv) == nv[1] < 0

\* num_tail with the order rounded up to the next even number
num_tail_rounded_up(bf) == Min(2 * ((order(bf[1]) + 1) \div 2), 4)

\* num_tail = std::min(2*(bf_src[0].order()/2), 4)
num_tail(bf) == Min(2 * (order(bf[1]) \div 2), 4)

offset(st) == IF st = "FERMIONIC" THEN 1 ELSE 0

\* ovec: the first max_num_low_freq entries of n_vec mapped to 2n+offset
ovec(nv, st, max_num_low_freq) ==
    [i \in 1..max_num_low_freq |-> 2 * nv[i] + offset(st)]

MaxOf(fn) == CHOOSE m \in {fn[i] : i \in DOMAIN fn} :
                \A i \in DOMAIN fn : fn[i] <= m

\* the derivative orders m of the terms tails(l, m), m = 0..num_tail-1,
\* each one -sqrt(2) 2^m i^(m+1) (sign_s - sign_lm) bf_src[l].derivative(1, m)
tail_terms(bf) == [l \in 1..Len(bf) |-> [m \in 1..num_tail(bf) |-> m - 1]]

\* bf_src[l].derivative(1, m) evaluates in find_section(1); no range check
\* is made, so for a function whose last edge is below 1 the section is
\* num_sections and the read of coeff_ is out of bounds
derivative_out_of_bounds(bf) ==
    \E l \in 1..Len(bf) :
        LET s == find_section(bf[l], One) IN s < 0 \/ s >= num_sections(bf[l])

\* n_limit of a basis function is a number computed from its tail terms:
\* the model draws it (n < n_limit is decided by its ceiling) from three
\* values: below every index, above index 0 only, above every index
Thresholds == {0, 1, MaxN + 1}

\* num_low_freq[l] = std::count_if(n_vec, n < n_limit)
count_low_freq(nv, limit) ==
    [l \in DOMAIN limit |->
        Cardinality({i \in 1..Len(nv) : nv[i] < limit[l]})]

\* the tail loop with max_num_low_freq as the first row for every l
TnlMatrix_tail_from_max(nv, bf, num_low_freq) ==
    [i \in 1..Len(nv) |->
        [l \in 1..Len(bf) |->
            IF i - 1 >= MaxOf(num_low_freq) THEN "tail" ELSE "exact"]]

\* the matrix written at the end: entry (i,l) is first set from the exact
\* routine when i < max_num_low_freq (zero otherwise), then replaced by the
\* tail sum when i >= num_low_freq[l]
TnlMatrix(nv, bf, num_low_freq) ==
    [i \in 1..Len(nv) |->
        [l \in 1..Len(bf) |->
            IF i - 1 >= num_low_freq[l] THEN "tail"
            ELSE IF i - 1 < MaxOf(num_low_freq) THEN "exact"
            ELSE "zero"]]

\* what a call leaves behind: how it ended, the output matrix, the tail
\* terms and the thresholds it computed (none before that point)
Outcome(r, T, t, lim) == [res |-> r, Tnl |-> T, tails |-> t, n_limit |-> lim]

\* the output matrix when the call fails
Tnl_zeroed_on_failure(nv, bf, Tnl0) ==
    [i \in 1..Len(nv) |-> [l \in 1..Len(bf) |-> "zero"]]

\* the output matrix when the call fails: `Tnl = ...` is the statement
\* after the call of compute_Tbar_ol, past every throw
Tnl_on_failure(nv, bf, Tnl0) == Tnl0

\* compute_transformation_matrix_to_matsubara: the set of ways the call
\* can end.  The thresholds depend on the derivatives of the basis
\* functions at 1.
compute_transformation_matrix_to_matsubara(nv, st, bf, Tnl0) ==
    IF Len(nv) = 0 THEN {Outcome(Ok, Tnl0, << >>, << >>)}
    ELSE IF HasDescent(nv)
         THEN {Outcome(Err("OrderError"), Tnl_on_failure(nv, bf, Tnl0), << >>, << >>)}
    ELSE IF has_negative(nv)
         THEN {Outcome(Err("RangeError"), Tnl_on_failure(nv, bf, Tnl0), << >>, << >>)}
    ELSE IF num_tail(bf) < 4
         THEN {Outcome(Err("NumTailError"), Tnl_on_failure(nv, bf, Tnl0), << >>, << >>)}
    ELSE (IF derivative_out_of_bounds(bf)
          THEN {Outcome(Crash, Tnl0, << >>, << >>)}
          ELSE {})
         \cup
         UNION {
           LET num_low_freq == count_low_freq(nv, limit)
               low == compute_Tbar_ol(ovec(nv, st, MaxOf(num_low_freq)), bf)
           IN {Outcome(r, IF r = Crash THEN Tnl0 ELSE Tnl_on_failure(nv, bf, Tnl0),
                       tail_terms(bf), limit) : r \in low \ {Ok}}
              \cup
              (IF Ok \in low
               THEN {Outcome(Ok, TnlMatrix(nv, bf, num_low_freq),
                             tail_terms(bf), limit)}
               ELSE {})
           : limit \in [1..Len(bf) -> Thresholds] }

\* the frequency lists, the bases and the output matrices the calls are
\* made with
FreqLists == UNION {[1..n -> (-1)..MaxN] : n \in 0..MaxFreq}

\* a basis function of order k on the edges S, every coefficient 1
BasisFunction(k, S) ==
    MakePP(S, [s \in 1..(Len(S) - 1) |-> [j \in 1..(k + 1) |-> 1]])

\* functions on [0,1] of the orders 3 (num_tail 2), 4 and 5 (num_tail 4),
\* and functions of order 4 with two sections, with a first edge that is
\* not 0, with a last edge that is not 1
BasisPP ==
    {BasisFunction(k, <<0, One>>) : k \in {3, 4, 5}} \cup
    {BasisFunction(4, S) : S \in {<<0, 1, One>>, <<1, One>>, <<0, 1>>}}

Bases == UNION {[1..n -> BasisPP] : n \in 1..MaxBasis}

PPIdle ==
    /\ f = ZeroPP(0, <<0, One>>)
    /\ g = ZeroPP(0, <<0, One>>)
    /\ x = 0
    /\ op = "none"
    /\ res = NoRes

InitTnl ==
    /\ n_vec \in FreqLists
    /\ statis \in {"FERMIONIC", "BOSONIC"}
    /\ bf_src \in Bases
    /\ Tnl \in {<<>>, <<<<"old">>>>}
    /\ tcall = "none"
    /\ tres = NoRes
    /\ tails = << >>
    /\ n_limit = << >>
    /\ PPIdle
    /\ GenIdle
    /\ PrecIdle
    /\ SignIdle
    /\ IntIdle

\* ir_basis_set::compute_Tnl(n_vec, Tnl)
ComputeTnl ==
    /\ tcall = "none"
    /\ tcall' = "compute_Tnl"
    /\ \E r \in compute_transformation_matrix_to_matsubara(n_vec, statis, bf_src, Tnl) :
         /\ tres' = r.res
         /\ Tnl' = r.Tnl
         /\ tails' = r.tails
         /\ n_limit' = r.n_limit
    /\ UNCHANGED <<n_vec, statis, bf_src>>
    /\ UNCHANGED ppVars
    /\ UNCHANGED genVars
    /\ UNCHANGED precVars
    /\ UNCHANGED signVars
    /\ UNCHANGED intVars

\* compute_Tbar_ol(o_vec, bf_src, Tbar_ol) with o_vec = n_vec
ComputeTbarOl ==
    /\ tcall = "none"
    /\ tcall' = "compute_Tbar_ol"
    /\ \E r \in compute_Tbar_ol(n_vec, bf_src) :
         /\ tres' = r
         /\ Tnl' = IF r = Ok /\ Len(n_vec) > 0
                   THEN [i \in 1..Len(n_vec) |-> [l \in 1..Len(bf_src) |-> "exact"]]
                   ELSE Tnl
    /\ UNCHANGED <<n_vec, statis, bf_src, tails, n_limit>>
    /\ UNCHANGED ppVars
    /\ UNCHANGED genVars
    /\ UNCHANGED precVars
    /\ UNCHANGED signVars
    /\ UNCHANGED intVars

NextTnl == ComputeTnl \/ ComputeTbarOl

SpecTnl == InitTnl /\ [][NextTnl]_vars

----------------------------------------------------------------------------
(* Adaptive basis generator: generate_ir_basis_functions and               *)
(* generate_ir_basis_functions_impl                                        *)
(*                                                                         *)
(* The kernel, the matrix assembly and the SVD are numerical: the model    *)
(* draws the singular values of each sector from the non-increasing lists  *)
(* (Eigen returns them sorted), the residuals and tolerances from small    *)
(* sets.  A partition of [0,1] lives on the grid 0..GridOne.  sv, Uvec,    *)
(* Vvec, residual_x and residual_y are the lists of the call of the impl   *)
(* in progress, and of the last call once generate is done.                *)
(*   "Singular values are not in decreasing order ..." -> "PrecisionError" *)
(*   "num_local_poly < 2! ..."                         -> "ConfigError"    *)
(*   "The number of nodes is wrong."                   -> "NodesError"     *)

MaxDepth == 1       \* the grid of [0,1] has 2^MaxDepth steps
MaxDim == 3         \* max_dim is drawn from 1..MaxDim
MaxSV == 2          \* singular values are drawn from 0..MaxSV
MaxLocalPoly == 2   \* num_local_poly is drawn from 1..MaxLocalPoly

GridOne == Pow(2, MaxDepth)

\* sv_cutoff as a ratio n/d: 0, 1/2, 1, 2
SvCutoffs == {[n |-> 0, d |-> 1], [n |-> 1, d |-> 2],
              [n |-> 1, d |-> 1], [n |-> 2, d |-> 1]}

NonIncreasing(s) == \A i \in 1..(Len(s) - 1) : s[i] >= s[i + 1]

\* the loop that picks singular values reads entry i of a sector only
\* while fewer than max_dim values are kept: the entries read are the first
\* NumRead of each sector
NumRead == (MaxDim - 1) \div 2 + 1

\* the singular values an SVD of an m-column thin problem can return: a
\* non-increasing list; the entries that are never read are 0
SingularValues(m) ==
    {h \o Zeros(m - Len(h)) :
        h \in {r \in [1..Min(m, NumRead) -> 0..MaxSV] : NonIncreasing(r)}}

\* strictly ascending lists of n interior grid points
InteriorNodes(n) ==
    {s \in [1..n -> 1..(GridOne - 1)] : StrictlyAscending(s)}

\* a kernel as compute_approximate_nodes_even_sector sees it: the nodes of
\* the singular vector dim-1 for x and for y (dim-1 of each), or a count
\* of sign changes that is not dim-1 ("The number of nodes is wrong.")
Kernels ==
    UNION {{[kind |-> "nodes", nodes_x |-> a, nodes_y |-> b] :
               a \in InteriorNodes(n), b \in InteriorNodes(n)} :
           n \in 0..(GridOne - 1)}
    \cup {[kind |-> "bad"]}

\* the kernel of a call that draws the nodes where they are computed
AnyKernel == [kind |-> "any"]

\* lambda gen_section_edges: 0, the nodes, 1
gen_section_edges(nodes) == <<0>> \o nodes \o <<GridOne>>

\* the comparison without the normalisation by s0
below_cutoff_absolute(value, s0, cutoff) == value * cutoff.d < cutoff.n

\* `value / s0 < sv_cutoff`, with s0 > 0
below_cutoff(value, s0, cutoff) == value * cutoff.d < cutoff.n * s0

\* the even column pushed whatever the sector
col_even(sector, i) == <<"even", i>>

\* svd_even / svd_odd .matrixU().col(i), .matrixV().col(i): a vector is
\* named by sector and column
col(sector, i) == <<sector, i>>

\* the loop that picks singular values and vectors, from iteration i on;
\* acc holds sv, Uvec and Vvec.
RECURSIVE interleave(_, _, _, _, _, _)
interleave(i, acc, even, odd, maxdim, cutoff) ==
    LET s0 == even[1] IN
    IF i >= Len(even) THEN acc
    ELSE IF Len(acc.sv) = maxdim \/ below_cutoff(even[i + 1], s0, cutoff) THEN acc
    ELSE LET acc1 == [sv |-> Append(acc.sv, even[i + 1]),
                      Uvec |-> Append(acc.Uvec, col("even", i)),
                      Vvec |-> Append(acc.Vvec, col("even", i))] IN
         IF Len(acc1.sv) = maxdim \/ below_cutoff(odd[i + 1], s0, cutoff) THEN acc1
         ELSE interleave(i + 1,
                         [sv |-> Append(acc1.sv, odd[i + 1]),
                          Uvec |-> Append(acc1.Uvec, col("odd", i)),
                          Vvec |-> Append(acc1.Vvec, col("odd", i))],
                         even, odd, maxdim, cutoff)

\* the order test that never finds a descent
order_violated_never(s) == FALSE

\* the loop that checks the order of a non-empty sv: `sv[l] < sv[l+1]`
order_violated(s) == \E l \in 1..(Len(s) - 1) : s[l] < s[l + 1]

\* insertion of a value into a sorted list
RECURSIVE insert_sorted(_, _)
insert_sorted(s, v) ==
    IF s = <<>> THEN <<v>>
    ELSE IF v <= Head(s) THEN <<v>> \o s
    ELSE <<Head(s)>> \o insert_sorted(Tail(s), v)

\* std::sort
RECURSIVE sort(_)
sort(s) == IF s = <<>> THEN <<>> ELSE insert_sorted(sort(Tail(s)), Head(s))

\* lambda u: the midpoint of every section whose residual exceeds eps is
\* appended, then the list is sorted.  A midpoint that lies between two
\* points of the grid is not kept in the list: the partition is known as
\* far as the grid resolves it, its size by num_pushed.
RECURSIVE midpoints(_, _, _, _)
midpoints(edges, residual, eps, s) ==
    IF s >= Len(edges) - 1 THEN <<>>
    ELSE (IF residual[s + 1] > eps /\ (edges[s + 1] + edges[s + 2]) % 2 = 0
          THEN <<(edges[s + 1] + edges[s + 2]) \div 2>>
          ELSE <<>>) \o midpoints(edges, residual, eps, s + 1)

\* lambda u: the number of calls of push_back
num_pushed(edges, residual, eps) ==
    Cardinality({s \in 1..(Len(edges) - 1) : residual[s] > eps})

\* the new list without the call of std::sort
u_unsorted(edges, residual, eps) == edges \o midpoints(edges, residual, eps, 0)

u(edges, residual, eps) == sort(edges \o midpoints(edges, residual, eps, 0))

\* residuals of the sections of a partition; a section that the grid cannot
\* halve any more has residual 0
Residuals(edges) ==
    {r \in [1..(Len(edges) - 1) -> {0, 1}] :
        \A s \in 1..(Len(edges) - 1) :
            (edges[s + 1] - edges[s]) % 2 = 1 => r[s] = 0}

\* a_tol_x, a_tol_y: r_tol times the absolute value of a basis function at
\* an end of [0,1], which is 0 or 1 here
Tolerances == {r_tol * v : v \in {0, 1}}

\* the state in which generate_ir_basis_functions is entered, r_tol apart
GenEntry ==
    /\ max_dim \in 1..MaxDim
    /\ sv_cutoff \in SvCutoffs
    /\ num_local_poly \in 1..MaxLocalPoly
    /\ verbose \in BOOLEAN
    /\ section_edges_x = <<>>
    /\ section_edges_y = <<>>
    /\ svd_even = <<>>
    /\ svd_odd = <<>>
    /\ sv = <<>>
    /\ Uvec = <<>>
    /\ Vvec = <<>>
    /\ residual_x = <<>>
    /\ residual_y = <<>>
    /\ residual_weight = 0
    /\ a_tol_x = NoTolerance
    /\ a_tol_y = NoTolerance
    /\ gpc = "INIT"
    /\ gret = NoRes
    /\ PPIdle
    /\ TnlIdle
    /\ PrecIdle
    /\ SignIdle
    /\ IntIdle

\* calls with a positive r_tol (the default is 1e-6): the residual of a
\* section the grid cannot halve is 0, so every midpoint is on the grid
InitGen == GenEntry /\ r_tol = 1 /\ knl = AnyKernel

\* calls with a negative or a positive r_tol
InitGenLive == GenEntry /\ r_tol \in {-1, 1} /\ knl = AnyKernel

GenInputs == <<max_dim, sv_cutoff, num_local_poly, verbose, r_tol, knl>>
NotGen == <<ppVars, tnlVars, precVars, signVars, intVars>>

\* what an iteration of the loop computes besides the lists
GenLocals == <<residual_weight, a_tol_x, a_tol_y>>

\* generate_ir_basis_functions up to the loop, for a kernel k: the
\* approximate nodes are computed only when verbose is set; otherwise
\* nodes_x and nodes_y stay empty.  compute_approximate_nodes_even_sector
\* returns dim-1 nodes for x and for y, or throws.
Start(k) ==
    /\ gpc = "INIT"
    /\ IF verbose
       THEN IF k.kind = "nodes"
            THEN /\ section_edges_x' = gen_section_edges(k.nodes_x)
                 /\ section_edges_y' = gen_section_edges(k.nodes_y)
                 /\ gpc' = "IMPL"
                 /\ UNCHANGED gret
            ELSE /\ gpc' = "ERROR"
                 /\ gret' = Err("NodesError")
                 /\ UNCHANGED <<section_edges_x, section_edges_y>>
       ELSE /\ section_edges_x' = gen_section_edges(<< >>)
            /\ section_edges_y' = gen_section_edges(<< >>)
            /\ gpc' = "IMPL"
            /\ UNCHANGED gret
    /\ UNCHANGED <<GenInputs, svd_even, svd_odd, sv, Uvec, Vvec,
                   residual_x, residual_y>>
    /\ UNCHANGED GenLocals
    /\ UNCHANGED NotGen

\* the start of a call whose kernel is drawn where it is used
GenStart == \E k \in Kernels : Start(k)

\* the start of a call whose kernel is fixed from the beginning
StartCall == Start(knl)

\* calls of generate with every kernel and every value of verbose
InitStart == GenEntry /\ r_tol = 1 /\ knl \in Kernels

NextStart == StartCall

SpecStart == InitStart /\ [][NextStart]_vars

\* generate_ir_basis_functions_impl, entry: the test of num_local_poly
ImplEnter ==
    /\ gpc = "IMPL"
    /\ IF num_local_poly < 2
       THEN gpc' = "ERROR" /\ gret' = Err("ConfigError")
       ELSE gpc' = "BUILD_EVEN" /\ UNCHANGED gret
    /\ UNCHANGED <<GenInputs, section_edges_x, section_edges_y,
                   svd_even, svd_odd, sv, Uvec, Vvec, residual_x, residual_y>>
    /\ UNCHANGED GenLocals
    /\ UNCHANGED NotGen

\* matrix_rep for the even kernel
BuildEven ==
    /\ gpc = "BUILD_EVEN"
    /\ gpc' = "SVD_EVEN"
    /\ UNCHANGED <<GenInputs, section_edges_x, section_edges_y, svd_even, svd_odd,
                   sv, Uvec, Vvec, residual_x, residual_y, gret>>
    /\ UNCHANGED GenLocals
    /\ UNCHANGED NotGen

\* number of singular values of the thin SVD of the kernel matrix
NumSingular ==
    Min(Len(section_edges_x) - 1, Len(section_edges_y) - 1) * num_local_poly

\* BDCSVD of Kmat_even; the even kernel is not zero, so s0 > 0
SvdEven ==
    /\ gpc = "SVD_EVEN"
    /\ \E s \in SingularValues(NumSingular) :
         /\ s[1] > 0
         /\ svd_even' = s
    /\ gpc' = "BUILD_ODD"
    /\ UNCHANGED <<GenInputs, section_edges_x, section_edges_y, svd_odd,
                   sv, Uvec, Vvec, residual_x, residual_y, gret>>
    /\ UNCHANGED GenLocals
    /\ UNCHANGED NotGen

\* matrix_rep for the odd kernel
BuildOdd ==
    /\ gpc = "BUILD_ODD"
    /\ gpc' = "SVD_ODD"
    /\ UNCHANGED <<GenInputs, section_edges_x, section_edges_y, svd_even, svd_odd,
                   sv, Uvec, Vvec, residual_x, residual_y, gret>>
    /\ UNCHANGED GenLocals
    /\ UNCHANGED NotGen

\* BDCSVD of Kmat_odd
SvdOdd ==
    /\ gpc = "SVD_ODD"
    /\ svd_odd' \in SingularValues(NumSingular)
    /\ gpc' = "INTERLEAVE"
    /\ UNCHANGED <<GenInputs, section_edges_x, section_edges_y, svd_even,
                   sv, Uvec, Vvec, residual_x, residual_y, gret>>
    /\ UNCHANGED GenLocals
    /\ UNCHANGED NotGen

\* the loop that picks up singular values and vectors above the cutoff
Interleave ==
    /\ gpc = "INTERLEAVE"
    /\ LET r == interleave(0, [sv |-> <<>>, Uvec |-> <<>>, Vvec |-> <<>>],
                           svd_even, svd_odd, max_dim, sv_cutoff) IN
         /\ sv' = r.sv
         /\ Uvec' = r.Uvec
         /\ Vvec' = r.Vvec
    /\ gpc' = "CHECK_ORDER"
    /\ UNCHANGED <<GenInputs, section_edges_x, section_edges_y, svd_even, svd_odd,
                   residual_x, residual_y, gret>>
    /\ UNCHANGED GenLocals
    /\ UNCHANGED NotGen

\* the check of the order of sv.  The bound of the loop is sv.size() - 1
\* in unsigned arithmetic: for an empty sv it wraps and sv[0], sv[1] are
\* read out of bounds, so the build faults or throws on what it read.
CheckOrder ==
    /\ gpc = "CHECK_ORDER"
    /\ IF Len(sv) = 0
       THEN \/ gpc' = "CRASH" /\ gret' = Crash
            \/ gpc' = "ERROR" /\ gret' = Err("PrecisionError")
       ELSE IF order_violated(sv)
            THEN gpc' = "ERROR" /\ gret' = Err("PrecisionError")
            ELSE gpc' = "LIFT" /\ UNCHANGED gret
    /\ UNCHANGED <<GenInputs, section_edges_x, section_edges_y, svd_even, svd_odd,
                   sv, Uvec, Vvec, residual_x, residual_y>>
    /\ UNCHANGED GenLocals
    /\ UNCHANGED NotGen

\* the impl returning right after the lift
Lift_returns ==
    /\ gpc = "LIFT"
    /\ gpc' = "DONE"
    /\ gret' = Ok
    /\ UNCHANGED <<GenInputs, section_edges_x, section_edges_y, svd_even, svd_odd,
                   sv, Uvec, Vvec, residual_x, residual_y>>
    /\ UNCHANGED GenLocals
    /\ UNCHANGED NotGen

\* gen_pp for U and V, and the sign normalisation
Lift ==
    /\ gpc = "LIFT"
    /\ gpc' = "RESIDUAL"
    /\ UNCHANGED <<GenInputs, section_edges_x, section_edges_y, svd_even, svd_odd,
                   sv, Uvec, Vvec, residual_x, residual_y, gret>>
    /\ UNCHANGED GenLocals
    /\ UNCHANGED NotGen

\* the number under the square root of the residuals, over the section
\* width: `std::sqrt((2.*l+1)/dx)` with `auto l = Uvec.size() - 1`
weight(l) == 2 * l + 1

\* the residual estimates; the impl returns (its SVD objects go away)
Residual ==
    /\ gpc = "RESIDUAL"
    /\ residual_x' \in Residuals(section_edges_x)
    /\ residual_y' \in Residuals(section_edges_y)
    /\ residual_weight' = weight(Len(Uvec) - 1)
    /\ svd_even' = <<>>
    /\ svd_odd' = <<>>
    /\ gpc' = "TOLERANCE"
    /\ UNCHANGED <<GenInputs, section_edges_x, section_edges_y,
                   sv, Uvec, Vvec, a_tol_x, a_tol_y, gret>>
    /\ UNCHANGED NotGen

\* index of the V vector used for a_tol_y: 2*(dim/2)-1
a_tol_y_index(dim) == 2 * (dim \div 2) - 1

\* back in generate_ir_basis_functions: the tolerances.  For dim = 1 the
\* vector read for a_tol_y has index -1: the build faults or goes on with
\* the tolerance it derived from what it read.
Tolerance ==
    /\ gpc = "TOLERANCE"
    /\ \/ /\ a_tol_y_index(Len(Uvec)) < 0
          /\ gpc' = "CRASH"
          /\ gret' = Crash
          /\ UNCHANGED <<a_tol_x, a_tol_y>>
       \/ /\ a_tol_x' \in Tolerances
          /\ a_tol_y' \in Tolerances
          /\ gpc' = "REFINE"
          /\ UNCHANGED gret
    /\ UNCHANGED <<GenInputs, section_edges_x, section_edges_y, svd_even, svd_odd,
                   sv, Uvec, Vvec, residual_x, residual_y, residual_weight>>
    /\ UNCHANGED NotGen

\* the test with >= in place of ==
converged_at_once(size_x, size_y, ns) == size_x + size_y >= ns

\* `section_edges_x.size() + section_edges_y.size() == ns`
converged(size_x, size_y, ns) == size_x + size_y = ns

\* the refinement of both partitions and the test for convergence.  When
\* the loop goes on, the impl is called again and starts from empty lists.
Refine ==
    /\ gpc = "REFINE"
    /\ LET ns == Len(section_edges_x) + Len(section_edges_y)
           new_x == u(section_edges_x, residual_x, a_tol_x)
           new_y == u(section_edges_y, residual_y, a_tol_y)
           size_x == Len(section_edges_x) +
                     num_pushed(section_edges_x, residual_x, a_tol_x)
           size_y == Len(section_edges_y) +
                     num_pushed(section_edges_y, residual_y, a_tol_y)
       IN /\ section_edges_x' = new_x
          /\ section_edges_y' = new_y
          /\ IF converged(size_x, size_y, ns)
             THEN /\ gpc' = "DONE"
                  /\ gret' = Ok
                  /\ UNCHANGED <<sv, Uvec, Vvec, residual_x, residual_y,
                                 residual_weight, a_tol_x, a_tol_y>>
             ELSE /\ gpc' = "IMPL"
                  /\ sv' = <<>>
                  /\ Uvec' = <<>>
                  /\ Vvec' = <<>>
                  /\ residual_x' = <<>>
                  /\ residual_y' = <<>>
                  /\ residual_weight' = 0
                  /\ a_tol_x' = NoTolerance
                  /\ a_tol_y' = NoTolerance
                  /\ UNCHANGED gret
    /\ UNCHANGED <<GenInputs, svd_even, svd_odd>>
    /\ UNCHANGED NotGen

NextGen ==
    \/ GenStart \/ ImplEnter \/ BuildEven \/ SvdEven \/ BuildOdd \/ SvdOdd
    \/ Interleave \/ CheckOrder \/ Lift \/ Residual \/ Tolerance \/ Refine

SpecGen == InitGen /\ [][NextGen]_vars

\* the run goes on as long as it has a step to take
SpecGenLive == InitGenLive /\ [][NextGen]_vars /\ WF_vars(NextGen)

----------------------------------------------------------------------------
(* generate_ir_basis_functions_impl: the sign normalisation of the lifted *)
(* basis functions.  The functions live on [0,1], edge value 1 being One; *)
(* the U functions share the x partition, the V functions the y partition. *)

\* partitions of [0,1]
Partitions01 == {S \in AllPartitions : S[1] = 0 /\ S[Len(S)] = One}

\* the value at the first edge
value_at_zero(pp) == compute_value_in(pp, 0, find_section(pp, 0))

\* u_basis_pp[i].compute_value(1)
value_at_one(pp) == compute_value_in(pp, One, find_section(pp, One))

\* the lists gen_pp returns for U: multiples, by signs the SVD chose, of a
\* function on the x partition
UBases ==
    {[l \in 1..Len(c) |-> scalar_mul(c[l], pp)] :
        <<pp, c>> \in {q \in AllPP : q.S \in Partitions01} \X
                      UNION {[1..n -> {-1, 1}] : n \in 1..MaxBasis}}

\* the lists gen_pp returns for V, on the y partition
VBases ==
    {[l \in 1..Len(c) |-> scalar_mul(c[l], BasisFunction(MaxOrder, S))] :
        <<S, c>> \in Partitions01 \X
                     UNION {[1..n -> {-1, 1}] : n \in 1..MaxBasis}}

InitSign ==
    /\ u_basis_pp \in UBases
    /\ v_basis_pp \in {v \in VBases : Len(v) = Len(u_basis_pp)}
    /\ sgn_sv = [l \in 1..Len(u_basis_pp) |-> MaxSV]
    /\ sgn_entry = [sv |-> sgn_sv, u |-> u_basis_pp, v |-> v_basis_pp]
    /\ sgn_i = 0
    /\ spc = "LOOP"
    /\ PPIdle
    /\ TnlIdle
    /\ GenIdle
    /\ PrecIdle
    /\ IntIdle

NotSign == <<ppVars, tnlVars, genVars, precVars, intVars>>

\* one pass of the loop over i
SignStep ==
    /\ spc = "LOOP"
    /\ sgn_i < Len(u_basis_pp)
    /\ IF value_at_one(u_basis_pp[sgn_i + 1]) < 0
       THEN /\ u_basis_pp' = [u_basis_pp EXCEPT
                                ![sgn_i + 1] = scalar_mul(-1, u_basis_pp[sgn_i + 1])]
            /\ v_basis_pp' = [v_basis_pp EXCEPT
                                ![sgn_i + 1] = scalar_mul(-1, v_basis_pp[sgn_i + 1])]
       ELSE UNCHANGED <<u_basis_pp, v_basis_pp>>
    /\ sgn_i' = sgn_i + 1
    /\ UNCHANGED <<sgn_sv, sgn_entry, spc>>
    /\ UNCHANGED NotSign

\* the loop ends
SignDone ==
    /\ spc = "LOOP"
    /\ sgn_i >= Len(u_basis_pp)
    /\ spc' = "DONE"
    /\ UNCHANGED <<u_basis_pp, v_basis_pp, sgn_sv, sgn_entry, sgn_i>>
    /\ UNCHANGED NotSign

NextSign == SignStep \/ SignDone

SpecSign == InitSign /\ [][NextSign]_vars

----------------------------------------------------------------------------
(* compute_Tnl_impl: the one routine that sets the default precision *)

MaxW == 3           \* w is drawn from 0..MaxW (units of 0.1*pi)

\* mpfr::digits2bits: ceil(d * log2(10))
digits2bits(d) == (d * 33220 + 9999) \div 10000

\* compute_Tnl_tail: throws "Error zero frequency" when w == 0.0
compute_Tnl_tail_throws(ww) == ww = 0

\* the tail replacement entered whatever w is
tail_guard_always(ww) == TRUE

\* `if (w != 0.0)` around the two calls of compute_Tnl_tail
tail_guard(ww) == ww # 0

\* `w * (x1-x0) < 0.1 * pi` for section s of p
low_frequency_section(pp, ww, s) ==
    ww * (section_edge(pp, s + 1) - section_edge(pp, s)) < One

InitPrec ==
    /\ default_prec \in {53, digits2bits(30)}
    /\ prec_entry = default_prec
    /\ prec_bak = 0
    /\ impl_p \in {ZeroPP(MaxOrder, S) : S \in AllPartitions}
    /\ impl_w \in 0..MaxW
    /\ digits_A \in {15, 30}
    /\ digits_B \in {30, 40}
    /\ impl_s = 0
    /\ ipc = "ENTRY"
    /\ PPIdle
    /\ TnlIdle
    /\ GenIdle
    /\ SignIdle
    /\ IntIdle

PrecInputs == <<prec_entry, impl_p, impl_w, digits_A, digits_B>>
NotPrec == <<ppVars, tnlVars, genVars, signVars, intVars>>

\* entry: prec_bak = get_default_prec(); the nodes are prepared
ImplSave ==
    /\ ipc = "ENTRY"
    /\ prec_bak' = default_prec
    /\ impl_s' = 0
    /\ ipc' = "SECTIONS"
    /\ UNCHANGED <<default_prec, PrecInputs>>
    /\ UNCHANGED NotPrec

\* one iteration of the loop over sections: the precision is set to
\* digits_A (quadrature branch) or digits_B (recurrence branch)
ImplSection ==
    /\ ipc = "SECTIONS"
    /\ impl_s < num_sections(impl_p)
    /\ default_prec' = IF low_frequency_section(impl_p, impl_w, impl_s)
                       THEN digits2bits(digits_A)
                       ELSE digits2bits(digits_B)
    /\ impl_s' = impl_s + 1
    /\ UNCHANGED <<prec_bak, ipc, PrecInputs>>
    /\ UNCHANGED NotPrec

\* after the loop: symmetrisation, then the tail replacement.  An error
\* thrown by compute_Tnl_tail leaves the routine at once.
ImplTail ==
    /\ ipc = "SECTIONS"
    /\ impl_s >= num_sections(impl_p)
    /\ ipc' = IF tail_guard(impl_w) /\ compute_Tnl_tail_throws(impl_w)
              THEN "ERROR"
              ELSE "RESTORE"
    /\ UNCHANGED <<default_prec, prec_bak, impl_s, PrecInputs>>
    /\ UNCHANGED NotPrec

\* set_default_prec(prec_bak); return result
ImplRestore ==
    /\ ipc = "RESTORE"
    /\ default_prec' = prec_bak
    /\ ipc' = "DONE"
    /\ UNCHANGED <<prec_bak, impl_s, PrecInputs>>
    /\ UNCHANGED NotPrec

NextPrec == ImplSave \/ ImplSection \/ ImplTail \/ ImplRestore

SpecPrec == InitPrec /\ [][NextPrec]_vars

----------------------------------------------------------------------------
(* compute_integral_with_exp: the loop over the sections                   *)
(* The basis checks (check_basis above) have passed; what the loop reads   *)
(* of pp_func is the partition of pp_func[0].  w is in units of pi/2, as   *)
(* compute_Tbar_ol builds it (w = 0.5 * M_PI * o).                         *)

\* `const double cutoff = 0.1`, as its inverse
cutoff_inv == 10

\* the edge 1.0 of the partitions of this part.  The grid is chosen finer
\* than One so that non-zero frequencies fall on both sides of the cutoff,
\* and so that no w equals cutoff * pi / dx exactly (10 * w * d is never
\* 2 * IntOne), where the comparison would hang on the rounding.
IntOne == 5 * MaxEdge + 1

IntPartitions ==
    {S \in UNION {[1..m -> 0..IntOne] : m \in 2..(MaxSections + 1)} :
        /\ S[1] = 0
        /\ S[Len(S)] = IntOne
        /\ StrictlyAscending(S)}

\* the lists compute_Tbar_ol passes on: it returns before on an empty o_vec
IntFreqLists == {v \in FreqLists : Len(v) > 0}

\* dx = section_edge(s + 1) - section_edge(s), in grid units
int_dx(edges, s) == edges[s + 2] - edges[s + 1]

\* w[i] <= w_max_cs with w_max_cs = cutoff * pi / dx:
\* (pi/2) * w <= pi * IntOne / (cutoff_inv * d)
within_w_max_cs(w, d) == cutoff_inv * w * d <= 2 * IntOne

SetMax(q) == CHOOSE a \in q : \A b \in q : b <= a
SetMin(q) == CHOOSE a \in q : \A b \in q : a <= b

\* the loop stopping at the first frequency under the cutoff
n_max_cs_first(w, d) ==
    LET q == {i \in 0..(Len(w) - 1) : within_w_max_cs(w[i + 1], d)}
    IN IF q = {} THEN 0 - 1 ELSE SetMin(q)

\* n_max_cs: -1, or the last i with w[i] <= w_max_cs
n_max_cs(w, d) ==
    LET q == {i \in 0..(Len(w) - 1) : within_w_max_cs(w[i + 1], d)}
    IN IF q = {} THEN 0 - 1 ELSE SetMax(q)

InitInt ==
    /\ int_w \in IntFreqLists
    /\ int_edges \in IntPartitions
    /\ int_s = 0
    /\ int_n_max_cs = 0 - 1
    /\ left_mid = <<>>
    /\ Ik_div = {}
    /\ intpc = "ENTRY"
    /\ PPIdle
    /\ TnlIdle
    /\ GenIdle
    /\ PrecIdle
    /\ SignIdle

IntInputs == <<int_w, int_edges>>
NotInt == <<ppVars, tnlVars, genVars, precVars, signVars>>

\* the ascending test of w, then the matrices are allocated
IntEntry ==
    /\ intpc = "ENTRY"
    /\ intpc' = IF HasDescent(int_w) THEN "ERROR" ELSE "SECTION"
    /\ UNCHANGED <<int_s, int_n_max_cs, left_mid, Ik_div, IntInputs>>
    /\ UNCHANGED NotInt

\* head of the section loop: left_mid_matrix.setZero(), w_max_cs, n_max_cs
IntCutoff ==
    /\ intpc = "SECTION"
    /\ int_s < Len(int_edges) - 1
    /\ int_n_max_cs' = n_max_cs(int_w, int_dx(int_edges, int_s))
    /\ left_mid' = Append(left_mid, [n \in 1..Len(int_w) |-> <<>>])
    /\ intpc' = "TAYLOR"
    /\ UNCHANGED <<int_s, Ik_div, IntInputs>>
    /\ UNCHANGED NotInt

\* `if (n_max_cs >= 0)`: rows 0..n_max_cs come from the Taylor expansion
IntTaylor ==
    /\ intpc = "TAYLOR"
    /\ left_mid' = [left_mid EXCEPT ![int_s + 1] =
                      [n \in 1..Len(int_w) |->
                          IF n - 1 < int_n_max_cs + 1
                          THEN Append(@[n], "taylor") ELSE @[n]]]
    /\ intpc' = "EXACT"
    /\ UNCHANGED <<int_s, int_n_max_cs, Ik_div, IntInputs>>
    /\ UNCHANGED NotInt

\* rows max(n_max_cs + 1, 0)..n_max come from compute_Ik, which divides by
\* iw; then the section is added to r and the loop goes on
IntExact ==
    /\ intpc = "EXACT"
    /\ LET rows == {n \in Max(int_n_max_cs + 1, 0)..(Len(int_w) - 1) : TRUE}
       IN /\ left_mid' = [left_mid EXCEPT ![int_s + 1] =
                            [n \in 1..Len(int_w) |->
                                IF n - 1 \in rows
                                THEN Append(@[n], "Ik") ELSE @[n]]]
          /\ Ik_div' = Ik_div \cup {int_w[n + 1] : n \in rows}
    /\ int_s' = int_s + 1
    /\ intpc' = "SECTION"
    /\ UNCHANGED <<int_n_max_cs, IntInputs>>
    /\ UNCHANGED NotInt

\* after the last section: Tnl = r
IntReturn ==
    /\ intpc = "SECTION"
    /\ int_s = Len(int_edges) - 1
    /\ intpc' = "DONE"
    /\ UNCHANGED <<int_s, int_n_max_cs, left_mid, Ik_div, IntInputs>>
    /\ UNCHANGED NotInt

NextInt == IntEntry \/ IntCutoff \/ IntTaylor \/ IntExact \/ IntReturn

SpecInt == InitInt /\ [][NextInt]_vars

----------------------------------------------------------------------------
(* Properties of the piecewise-polynomial algebra *)

InDomain(p, xx) == p.S[1] <= xx /\ xx <= p.S[Len(p.S)]

\* coefficient of degree j in section s, zero for the degrees p lacks
Padded(p, s, j) == IF j <= order(p) THEN coefficient(p, s, j) ELSE 0

\* C1: on a shared partition f+g and f-g have order max(k_f, k_g) and in
\* every section the coefficient of degree p is f[s,p] +/- g[s,p], the
\* lower-order operand counting as zero for the degrees it lacks.
C1_AddSubCoefficientwise ==
    (op \in {"add", "sub"} /\ f.S = g.S) =>
        /\ res.kind = "pp"
        /\ order(res.pp) = Max(order(f), order(g))
        /\ \A s \in 0..(num_sections(f) - 1) :
             \A j \in 0..Max(order(f), order(g)) :
                coefficient(res.pp, s, j) =
                    ApplyOp(IF op = "add" THEN "plus" ELSE "minus",
                            Padded(f, s, j), Padded(g, s, j))

\* C2: on a shared partition (f+g)-g has the coefficients of f once the
\* shorter coefficient row is zero-padded.
C2_AddThenSubtractIsIdentity ==
    (op = "addsub" /\ f.S = g.S) =>
        /\ res.kind = "pp"
        /\ \A s \in 0..(num_sections(f) - 1) :
             \A j \in 0..Max(order(res.pp), order(f)) :
                Padded(res.pp, s, j) = Padded(f, s, j)

\* C15: overlap, add, subtract and multiply of two piecewise polynomials
\* whose partitions differ (in length or in any edge) fail with
\* PartitionMismatch, return no result and leave both operands unchanged.
C15_PartitionMismatchFails ==
    [][(op' \in {"add", "sub", "multiply", "overlap"} /\ f.S # g.S) =>
          /\ res' = [kind |-> "err", err |-> "PartitionMismatch"]
          /\ f' = f
          /\ g' = g]_vars

C15_Witness ==
    /\ op = "overlap"
    /\ Len(f.S) = Len(g.S)
    /\ f.S # g.S
    /\ res = [kind |-> "err", err |-> "PartitionMismatch"]

\* section width D_s, s counted from 0
Width(p, s) == section_edge(p, s + 1) - section_edge(p, s)

\* C17: on a shared partition multiply(f,g) has order k_f + k_g and per
\* section the convolution of the coefficients of f and g, and
\* integrate(multiply(f,g)) is the sum over s, p, p' of
\* f[s,p]*g[s,p']*D_s^(p+p'+1)/(p+p'+1); it is 1/3 for f = g = x on [0,1].
C17_MultiplyIntegrate ==
    LET kf == order(f)
        kg == order(g)
        E == Factorial(kf + kg + 1)
        term(t) == coefficient(f, t[1], t[2]) * coefficient(g, t[1], t[3])
                     * Pow(Width(f, t[1]), t[2] + t[3] + 1)
                     * (E \div (t[2] + t[3] + 1))
        expected == SumSeq([i \in 1..(num_sections(f) * (kf + 1) * (kg + 1)) |->
                      LET s == (i - 1) \div ((kf + 1) * (kg + 1))
                          p == ((i - 1) % ((kf + 1) * (kg + 1))) \div (kg + 1)
                          q == (i - 1) % (kg + 1)
                      IN term(<<s, p, q>>)])
    IN /\ (op = "multiply" /\ f.S = g.S) =>
          /\ res.kind = "pp"
          /\ order(res.pp) = kf + kg
          /\ res.pp.S = f.S
          /\ \A s \in 0..(num_sections(f) - 1) : \A d \in 0..(kf + kg) :
                coefficient(res.pp, s, d) =
                   SumSeq([p \in 1..(kf + 1) |->
                      IF d - (p - 1) \in 0..kg
                      THEN coefficient(f, s, p - 1) * coefficient(g, s, d - (p - 1))
                      ELSE 0])
       /\ (op = "integrate_product" /\ f.S = g.S) =>
          /\ res.kind = "value"
          /\ res.num * E = expected * res.den
          /\ (f = MakePP(<<0, 1>>, << <<0, 1>> >>) /\ g = f) => 3 * res.num = res.den

C17_Witness ==
    /\ op = "integrate_product"
    /\ f = MakePP(<<0, 1>>, << <<0, 1>> >>)
    /\ g = f
    /\ res.kind = "value"
    /\ 3 * res.num = res.den

\* C16: every object that a constructor returns normally, or that +, -,
\* scalar * or multiply returns, has order >= 0, at least one section,
\* strictly ascending section edges of length N+1 and a coefficient array
\* of shape (N, order+1).
C16_ObjectsWellFormed ==
    (op \in {"construct", "scalar", "add", "sub", "multiply"} /\ res.kind = "pp") =>
        /\ order(res.pp) >= 0
        /\ num_sections(res.pp) >= 1
        /\ Len(res.pp.S) = num_sections(res.pp) + 1
        /\ StrictlyAscending(res.pp.S)
        /\ Len(res.pp.a) = num_sections(res.pp)
        /\ \A s \in 1..Len(res.pp.a) : Len(res.pp.a[s]) = order(res.pp) + 1

\* C3: for x < S[0] or x > S[N], value(x) fails with RangeError; it reads no
\* section outside 0..N-1 and returns no number.
C3_ValueOutOfRangeFails ==
    (op = "value" /\ ~InDomain(f, x)) =>
        /\ res.kind = "err"
        /\ res.err = "RangeError"

\* C4: for S[0] <= x <= S[N], find_section(x) returns s in 0..N-1 with
\* S[s] <= x <= S[s+1]; x = S[0] gives 0 and x = S[N] gives N-1; value(x)
\* succeeds there, evaluating in such a section.
C4_FindSectionInDomain ==
    LET N == num_sections(f)
        Good(s) == /\ s \in 0..(N - 1)
                   /\ section_edge(f, s) <= x
                   /\ x <= section_edge(f, s + 1)
                   /\ (x = section_edge(f, 0) => s = 0)
                   /\ (x = section_edge(f, N) => s = N - 1)
    IN /\ (op = "find_section" /\ InDomain(f, x)) => Good(res.section)
       /\ (op = "value" /\ InDomain(f, x)) =>
              (res.kind = "value" /\ Good(res.section))

C4_Witness ==
    /\ op = "find_section"
    /\ num_sections(f) = 2
    /\ x = section_edge(f, 2)
    /\ res.section = 1

----------------------------------------------------------------------------
(* Properties of the Matsubara transform *)

\* C5: compute_Tbar_ol and compute_Tnl fail with OrderError for every
\* frequency list that is not strictly ascending, a list with two equal
\* adjacent entries included.
C5_NotStrictlyAscendingFails ==
    (tcall \in {"compute_Tnl", "compute_Tbar_ol"} /\ ~StrictlyAscendingList(n_vec)) =>
        tres = Err("OrderError")

\* C6: for a strictly ascending n_vec that contains a negative index,
\* compute_Tnl fails with RangeError and writes no matrix.
C6_NegativeIndexFails ==
    (/\ tcall = "compute_Tnl"
     /\ StrictlyAscendingList(n_vec)
     /\ \E i \in 1..Len(n_vec) : n_vec[i] < 0) =>
        /\ tres = Err("RangeError")
        /\ \A i \in 1..Len(Tnl) : \A l \in 1..Len(Tnl[i]) :
              Tnl[i][l] \notin {"exact", "tail", "zero"}

C6_Witness ==
    /\ tcall = "compute_Tnl"
    /\ n_vec = <<-1, 0>>
    /\ num_tail(bf_src) = 4
    /\ tres = Err("RangeError")

\* C18: compute_Tnl with an empty n_vec returns without error and the
\* matrix it hands back has zero rows, whatever the output argument held
\* before the call and whatever the basis is.
C18_EmptyNvecEmptyResult ==
    (tcall = "compute_Tnl" /\ Len(n_vec) = 0) =>
        (tres = Ok /\ Len(Tnl) = 0)

\* n_vec is non-empty, strictly ascending and non-negative
ValidFreq(nv) == Len(nv) > 0 /\ StrictlyAscendingList(nv) /\ nv[1] >= 0

\* C21: for a non-empty valid n_vec, compute_Tnl fails with an error when
\* the polynomial order of the basis is below 4, and for every order >= 4
\* it does not fail for the number of tail terms and every basis function
\* gets exactly the 4 tail terms of the derivative orders 0, 1, 2, 3.
C21_NumTailIsFour ==
    (tcall = "compute_Tnl" /\ ValidFreq(n_vec)) =>
        IF order(bf_src[1]) < 4
        THEN tres.kind = "err" /\ tails = << >>
        ELSE /\ tres # Err("NumTailError")
             /\ tres # Crash =>
                   /\ Len(tails) = Len(bf_src)
                   /\ \A l \in 1..Len(tails) : tails[l] = <<0, 1, 2, 3>>

C21_Witness ==
    /\ tcall = "compute_Tnl"
    /\ ValidFreq(n_vec)
    /\ Len(bf_src) = 2
    /\ order(bf_src[1]) = 5
    /\ tres = Ok
    /\ tails = <<<<0, 1, 2, 3>>, <<0, 1, 2, 3>>>>

\* some function is not on [0,1] or has another order than the first one
BadBasis(bf) ==
    \E l \in 1..Len(bf) :
        \/ bf[l].S[1] # 0
        \/ bf[l].S[Len(bf[l].S)] # One
        \/ order(bf[l]) # order(bf[1])

\* C22: for a non-empty ascending frequency list and every list of basis
\* functions, the transform fails with BasisError when some function has a
\* first edge other than 0, a last edge other than 1 or an order other
\* than that of the first function, and the check reads no edge outside a
\* function's own partition (the call is never cut short by such a read).
C22_BadBasisFails ==
    (tcall = "compute_Tbar_ol" /\ Len(n_vec) > 0 /\ ~HasDescent(n_vec)) =>
        /\ tres # Crash
        /\ BadBasis(bf_src) => tres = Err("BasisError")

\* C23: for a valid n_vec every entry Tnl(i,l) of the result comes from
\* exactly one regime: the exact routine when n_vec[i] is below the
\* threshold n_limit of l, the tail formula when it is not; no entry keeps
\* the zero it was initialised with.
C23_OneRegimePerEntry ==
    (tcall = "compute_Tnl" /\ ValidFreq(n_vec) /\ tres = Ok) =>
        /\ Len(Tnl) = Len(n_vec)
        /\ \A i \in 1..Len(n_vec) :
              /\ Len(Tnl[i]) = Len(bf_src)
              /\ \A l \in 1..Len(bf_src) :
                    Tnl[i][l] = IF n_vec[i] < n_limit[l] THEN "exact" ELSE "tail"

C23_Witness ==
    /\ tcall = "compute_Tnl"
    /\ tres = Ok
    /\ n_vec = <<0, 1>>
    /\ Len(bf_src) = 2
    /\ n_limit[1] = 1
    /\ n_limit[2] > 1
    /\ Tnl = <<<<"exact", "exact">>, <<"tail", "exact">>>>

\* C30: whenever compute_Tnl fails with an error (unsorted n_vec, negative
\* index, num_tail < 4, or a basis error of the exact routine) the caller's
\* output matrix is exactly what it was before the call.
C30_FailureLeavesOutputAlone ==
    [][(tcall' = "compute_Tnl" /\ tres'.kind = "err") => Tnl' = Tnl]_vars

C30_Witness ==
    /\ tcall = "compute_Tnl"
    /\ ValidFreq(n_vec)
    /\ tres = Err("BasisError")
    /\ Len(tails) > 0
    /\ Tnl = <<<<"old">>>>

----------------------------------------------------------------------------
(* Properties of the adaptive basis generator *)

\* positions at which sv, Uvec and Vvec are the lists of the current
\* iteration
Interleaved == {"CHECK_ORDER", "LIFT", "RESIDUAL", "TOLERANCE", "REFINE", "DONE"}

\* C7: with sv_cutoff >= 1 and max_dim >= 1 the basis has exactly one
\* function: sigma, U and V have length 1 and hold the first even-sector
\* triple.
C7_CutoffAtLeastOneKeepsOne ==
    (sv_cutoff.n >= sv_cutoff.d /\ max_dim >= 1 /\ gpc \in Interleaved) =>
        /\ Len(sv) = 1
        /\ Uvec = << <<"even", 0>> >>
        /\ Vvec = << <<"even", 0>> >>

\* C9: when generate returns normally the returned singular values are
\* non-increasing, and an interleaved list that is not non-increasing makes
\* the call fail with PrecisionError.
C9_ReturnedValuesNonIncreasing ==
    /\ [](gpc = "DONE" => NonIncreasing(sv))
    /\ [][(gpc = "CHECK_ORDER" /\ ~NonIncreasing(sv)) =>
            (gpc' = "ERROR" /\ gret' = Err("PrecisionError"))]_vars

C9_Witness ==
    /\ gpc = "ERROR"
    /\ gret = Err("PrecisionError")
    /\ Len(sv) >= 2
    /\ ~NonIncreasing(sv)

\* C10: after the interleave step sigma, the U vectors and the V vectors
\* have the same length L <= max_dim, and every retained singular value
\* satisfies sigma_i / sigma_0 >= sv_cutoff, sigma_0 being the largest
\* even-sector singular value.
C10_InterleaveLengthsAndCutoff ==
    (gpc \in {"CHECK_ORDER", "LIFT", "RESIDUAL"}) =>
        /\ Len(sv) = Len(Uvec)
        /\ Len(sv) = Len(Vvec)
        /\ Len(sv) <= max_dim
        /\ \A i \in 1..Len(sv) :
              sv[i] * sv_cutoff.d >= sv_cutoff.n * svd_even[1]

C10_Witness ==
    /\ gpc = "CHECK_ORDER"
    /\ Len(sv) = 2
    /\ max_dim > 2
    /\ Len(svd_even) >= 2
    /\ sv_cutoff.n > 0

\* C11: the retained basis is a prefix of even_0, odd_0, even_1, odd_1, ...:
\* the l-th triple is the floor(l/2)-th triple of the even sector for even
\* l and of the odd sector for odd l, none skipped and none repeated.
C11_RetainedBasisAlternates ==
    /\ (gpc \in {"CHECK_ORDER", "LIFT", "RESIDUAL"}) =>
          \A l \in 0..(Len(sv) - 1) :
             sv[l + 1] = (IF l % 2 = 0 THEN svd_even ELSE svd_odd)[l \div 2 + 1]
    /\ (gpc \in Interleaved) =>
          /\ Len(Uvec) = Len(sv)
          /\ Len(Vvec) = Len(sv)
          /\ \A l \in 0..(Len(Uvec) - 1) :
                /\ Uvec[l + 1] = <<IF l % 2 = 0 THEN "even" ELSE "odd", l \div 2>>
                /\ Vvec[l + 1] = Uvec[l + 1]

C11_Witness ==
    /\ gpc = "LIFT"
    /\ Len(sv) = 3
    /\ Uvec = << <<"even", 0>>, <<"odd", 0>>, <<"even", 1>> >>
    /\ svd_odd[1] # svd_even[2]

\* the set of the elements of a list
Range(q) == {q[i] : i \in 1..Len(q)}

\* new is old with exactly the midpoints of the sections whose residual
\* exceeds a tolerance, and is a partition of [0,1]
Grows(old, residual, new) ==
    /\ \E tol \in Tolerances :
          LET split == {s \in 1..(Len(old) - 1) : residual[s] > tol} IN
          /\ \A s \in split : (old[s] + old[s + 1]) % 2 = 0
          /\ Range(new) = Range(old) \cup
                          {m \in 0..GridOne :
                              \E s \in split : 2 * m = old[s] + old[s + 1]}
          /\ Len(new) = Len(old) + Cardinality(split)
    /\ Range(old) \subseteq Range(new)
    /\ Len(new) >= Len(old)
    /\ StrictlyAscending(new)
    /\ new[1] = 0
    /\ new[Len(new)] = GridOne

C14_RefinementTerminates == <>(gpc \in {"DONE", "ERROR", "CRASH"})

\* the function with every coefficient negated
Negated(pp) == [pp EXCEPT !.a = [s \in 1..Len(pp.a) |->
                                   [j \in 1..Len(pp.a[s]) |-> 0 - pp.a[s][j]]]]

\* C19: with num_local_poly < 2 generate fails at once: the call ends with
\* ConfigError and nothing a kernel discretisation or an SVD produces
\* (approximate nodes, singular values) exists at any point of the call,
\* whatever the other arguments are.
C19_TooFewLocalPolyFailsFirst ==
    num_local_poly < 2 =>
        /\ gpc \in {"INIT", "IMPL", "ERROR"}
        /\ Len(section_edges_x) <= 2
        /\ Len(section_edges_y) <= 2
        /\ svd_even = << >> /\ svd_odd = << >> /\ sv = << >>
        /\ (gpc = "ERROR" => gret = Err("ConfigError"))

\* C20: with sv_cutoff <= 0 generate fails with ConfigError and returns no
\* basis.
C20_NonPositiveCutoffFails ==
    sv_cutoff.n <= 0 =>
        /\ gpc # "DONE"
        /\ (gpc = "ERROR" => gret = Err("ConfigError"))

\* C24: on every call of generate, whatever verbose is, the partitions of
\* the first kernel-matrix assembly are 0, the approximate nodes of the
\* kernel, 1, for x and for y: dim sections for dim-1 nodes.
C24_InitialPartitionFromNodes ==
    (gpc = "IMPL" /\ knl.kind = "nodes") =>
        /\ section_edges_x = <<0>> \o knl.nodes_x \o <<GridOne>>
        /\ section_edges_y = <<0>> \o knl.nodes_y \o <<GridOne>>
        /\ Len(section_edges_x) - 1 = Len(knl.nodes_x) + 1
        /\ Len(section_edges_y) - 1 = Len(knl.nodes_y) + 1

\* the state of the refinement loop a position of the run belongs to: a
\* position is named by the step the run is about to take
LoopState(pc) ==
    CASE pc \in {"IMPL", "BUILD_EVEN", "BUILD_ODD"} -> "BUILD"
      [] pc \in {"SVD_EVEN", "SVD_ODD", "INTERLEAVE", "CHECK_ORDER"} -> "SVD"
      [] pc \in {"TOLERANCE", "REFINE"} -> "REFINE"
      [] OTHER -> pc

\* a step that ends the run with an error
Fails == gpc' \in {"ERROR", "CRASH"}

NoneAbove(residual, eps) == \A s \in 1..Len(residual) : ~(residual[s] > eps)

\* C26: generate returns in exactly the first iteration in which no
\* x-section has a residual above a_tol_x and no y-section one above
\* a_tol_y, and the basis it returns is the one computed on the partitions
\* in force at the return; otherwise a partition gains an edge and the loop
\* goes on to another BUILD on the refined partitions.
C26_ReturnsWhenNothingSplits ==
    [][gpc = "REFINE" =>
          IF NoneAbove(residual_x, a_tol_x) /\ NoneAbove(residual_y, a_tol_y)
          THEN /\ gpc' = "DONE"
               /\ gret' = Ok
               /\ UNCHANGED <<section_edges_x, section_edges_y, sv, Uvec, Vvec>>
               /\ Len(residual_x') = Len(section_edges_x') - 1
               /\ Len(residual_y') = Len(section_edges_y') - 1
          ELSE /\ gpc' = "IMPL"
               /\ gret' = gret
               /\ Len(section_edges_x') + Len(section_edges_y') >
                      Len(section_edges_x) + Len(section_edges_y)]_vars

C26_Witness ==
    /\ gpc = "DONE"
    /\ ~verbose
    /\ Len(section_edges_x) = 3
    /\ Len(section_edges_y) = 2
    /\ residual_y = <<1>>
    /\ a_tol_y = 1
    /\ Len(sv) = 2

\* C27: the tail residual of a section is |v_last[...]| times the square
\* root of (2*num_local_poly - 1) over the section width: the number under
\* the root does not depend on the number of retained basis functions.
C27_ResidualWeight ==
    (gpc \in {"TOLERANCE", "REFINE", "DONE"}) =>
        residual_weight = 2 * num_local_poly - 1

\* C28: for every basis size L >= 1 the indices of the functions the
\* tolerances are computed from, L-1 for x and 2*floor(L/2)-1 for y, are
\* basis indices in 0..L-1, and the last element of an empty basis is
\* never read.
C28_ToleranceIndicesValid ==
    (gpc = "TOLERANCE") =>
        /\ Len(Uvec) >= 1
        /\ Len(Uvec) - 1 \in 0..(Len(Uvec) - 1)
        /\ a_tol_y_index(Len(Vvec)) \in 0..(Len(Vvec) - 1)

\* C12: sign normalisation negates U_l and V_l together, exactly when
\* U_l(1) < 0: afterwards no U_l has U_l(1) < 0, V_l is negated if and only
\* if U_l is, and sigma_l is unchanged.
C12_SignNormalisation ==
    (spc = "DONE") =>
        /\ sgn_sv = sgn_entry.sv
        /\ Len(u_basis_pp) = Len(sgn_entry.u)
        /\ Len(v_basis_pp) = Len(sgn_entry.v)
        /\ \A l \in 1..Len(u_basis_pp) :
              /\ value_at_one(u_basis_pp[l]) >= 0
              /\ IF horner(sgn_entry.u[l].a[num_sections(sgn_entry.u[l])],
                           One - section_edge(sgn_entry.u[l],
                                              num_sections(sgn_entry.u[l]) - 1),
                           1) < 0
                 THEN /\ u_basis_pp[l] = Negated(sgn_entry.u[l])
                      /\ v_basis_pp[l] = Negated(sgn_entry.v[l])
                 ELSE /\ u_basis_pp[l] = sgn_entry.u[l]
                      /\ v_basis_pp[l] = sgn_entry.v[l]

C12_Witness ==
    /\ spc = "DONE"
    /\ Len(u_basis_pp) = 2
    /\ u_basis_pp[1] = sgn_entry.u[1]
    /\ u_basis_pp[2] # sgn_entry.u[2]
    /\ v_basis_pp[2] # sgn_entry.v[2]
    /\ num_sections(u_basis_pp[1]) = 2

----------------------------------------------------------------------------
(* Properties of the default precision *)

\* C8: compute_Tnl_impl leaves the default precision equal to its value at
\* entry on every exit path, normal return or error.
C8_PrecisionRestoredOnExit ==
    (ipc \in {"DONE", "ERROR"}) => default_prec = prec_entry

C8_Witness ==
    /\ ipc = "DONE"
    /\ num_sections(impl_p) = 2
    /\ impl_s = 2
    /\ digits2bits(digits_A) # prec_entry
    /\ digits2bits(digits_B) # prec_entry
    /\ default_prec = prec_entry

====
